---- MODULE Spec2Model ----
(***************************************************************************)
(* AgentKit message dispatcher: run_agent and dispatch_to_agent_endpoint   *)
(* (agentkit/api/endpoints/messaging.py) over the in-memory agent          *)
(* directory (agentkit/registration/storage.py) and tool catalogue         *)
(* (agentkit/tools/registry.py).                                           *)
(*                                                                         *)
(* Python values are encoded as functions from strings: a dict is the      *)
(* function of its items, a str s is ("$str" :> s), None is                *)
(* ("$none" :> "").  Formatted strings (f-strings) are the sequences of    *)
(* their parts.                                                            *)
(***************************************************************************)
EXTENDS Integers, Sequences, FiniteSets, TLC

VARIABLES
    _agent_registry,            \* storage.py: agentId -> AgentInfo
    _tool_registry,             \* registry.py: tool name -> local class
    _external_tool_endpoints,   \* registry.py: tool name -> endpoint URL
    _tool_definitions,          \* registry.py: tool name -> ToolDefinition
    requests,                   \* run_agent invocations, in arrival order
    background_tasks,           \* per invocation: its BackgroundTasks list
    dispatches,                 \* per invocation: run of its deferred task
    http_calls,                 \* outbound HTTP POSTs, in issue order
    clients,                    \* httpx.AsyncClient objects currently open
    last_call                   \* what a caller of the directory, the catalogue
                                \* or the register API last got back

vars == <<_agent_registry, _tool_registry, _external_tool_endpoints,
          _tool_definitions, requests, background_tasks, dispatches,
          http_calls, clients, last_call>>

registryVars == <<_tool_registry, _external_tool_endpoints, _tool_definitions>>
servingVars == <<requests, background_tasks, dispatches, http_calls, clients>>

-----------------------------------------------------------------------------
(* Bounds of the model *)

\* number of run_agent invocations in one behaviour
MaxReq == 1

-----------------------------------------------------------------------------
(* Python values *)

PyNone == ("$none" :> "")
PyStr(s) == ("$str" :> s)
EmptyDict == [k \in {} |-> ""]
IsDict(v) == "$none" \notin DOMAIN v /\ "$str" \notin DOMAIN v

\* the value str-typed lookups give for a missing key (Python None)
NoneStr == "<None>"

\* dict.get(key, default)
DictGet(d, key, default) == IF key \in DOMAIN d THEN d[key] ELSE default

\* Python truthiness of an optional string: None and "" are falsy
Falsy(s) == s = NoneStr \/ s = ""

-----------------------------------------------------------------------------
(* URLs and pydantic's HttpUrl validation *)

Url(scheme, host) == [scheme |-> scheme, host |-> host]

\* contactEndpoint None / empty
NoUrl == Url("", "")

\* bug: any URL with a host passes, whatever its scheme
HttpUrlValid_anyScheme(u) == u.host # ""

\* HttpUrl(s) accepts an absolute http(s) URL with a host, and raises
\* ValidationError (a ValueError) otherwise
HttpUrlValid(u) == u.scheme \in {"http", "https"} /\ u.host # ""

ReceiverUrl == Url("http", "test-receiver.local")
OtherUrl == Url("https", "other-agent.local")
ToolUrl == Url("http", "tool.local")
BadUrl == Url("ftp", "test-receiver.local")

-----------------------------------------------------------------------------
(* Agent directory: agentkit/registration/storage.py *)

\* ids run_agent is called with; only "a1" is ever registered
AgentIds == {"a1", "agent-does-not-exist"}

\* the fields of AgentInfo the directory and the dispatcher read (capabilities,
\* version, metadata and registration_time are carried along untouched)
AgentInfo(id, name, ep) == [agentId |-> id, agentName |-> name, contactEndpoint |-> ep]

\* Optional[AgentInfo] None
NoAgent == AgentInfo("", "", NoUrl)

\* the AgentInfo objects handed to add_agent (contactEndpoint validated by
\* the model's HttpUrl field)
AgentInfos == {AgentInfo("a1", "MessagingTestAgent", ReceiverUrl)}

get_agent(agent_id) ==
    IF agent_id \in DOMAIN _agent_registry THEN _agent_registry[agent_id] ELSE NoAgent

get_agent_by_name(agent_name) ==
    IF \E id \in DOMAIN _agent_registry : _agent_registry[id].agentName = agent_name
    THEN CHOOSE a \in {_agent_registry[id] : id \in DOMAIN _agent_registry} :
             a.agentName = agent_name
    ELSE NoAgent

\* bug: only the id is checked, not the name
add_agent_raises_idOnly(agent_info) == agent_info.agentId \in DOMAIN _agent_registry

\* add_agent raises ValueError on a duplicate id or name and stores otherwise
add_agent_raises(agent_info) ==
    \/ agent_info.agentId \in DOMAIN _agent_registry
    \/ get_agent_by_name(agent_info.agentName) # NoAgent

add_agent(agent_info) ==
    /\ _agent_registry' =
          IF add_agent_raises(agent_info)
          THEN _agent_registry
          ELSE (agent_info.agentId :> agent_info) @@ _agent_registry
    /\ UNCHANGED <<registryVars, servingVars>>

AgentStorage_clear_all ==
    /\ _agent_registry # EmptyDict
    /\ _agent_registry' = EmptyDict
    /\ UNCHANGED <<registryVars, servingVars>>

\* a stored record is a mutable object: a holder of the reference returned
\* by get_agent assigns contactEndpoint in place (no validation on assignment)
set_contactEndpoint(agent_id, ep) ==
    /\ agent_id \in DOMAIN _agent_registry
    /\ _agent_registry[agent_id].contactEndpoint # ep
    /\ _agent_registry' =
          [_agent_registry EXCEPT ![agent_id].contactEndpoint = ep]
    /\ UNCHANGED <<registryVars, servingVars>>

-----------------------------------------------------------------------------
(* Tool catalogue: agentkit/tools/registry.py *)

\* what is handed to register_tool: kind "tool" is a subclass of
\* ToolInterface, "not_class" an instance, "not_tool" an unrelated class;
\* definition is what get_definition() returns
ToolClass(cls, kind, definition) == [cls |-> cls, kind |-> kind, definition |-> definition]

ToolDef(name) == [name |-> name, description |-> "d", parameters |-> "{}"]

MockSuccessTool == ToolClass("MockSuccessTool", "tool", ToolDef("mock_success"))

\* Optional[Type[ToolInterface]] None
NoClass == ""

\* without toolId, a fresh uuid nothing reads
ToolDefinition(name, description, interface_details) ==
    [name |-> name, description |-> description, interface_details |-> interface_details]

\* bug: an unknown name resolves to a default class instead of None
get_tool_class_default(tool_name) == DictGet(_tool_registry, tool_name, "DefaultTool")

get_tool_class(tool_name) == DictGet(_tool_registry, tool_name, NoClass)

\* a JSON array in the place of a name, written as its repr: a list, which a
\* dict cannot hash
UnhashableName == "['mock_success']"

\* self._external_tool_endpoints.get(tool_name) raises TypeError for a key
\* that cannot be hashed
get_tool_endpoint_raises(tool_name) == tool_name = UnhashableName

\* bug: the table of external endpoints is never found to hold the name
get_tool_endpoint_unbound(tool_name) == NoUrl

get_tool_endpoint(tool_name) == DictGet(_external_tool_endpoints, tool_name, NoUrl)

get_tool_definition(tool_name) ==
    DictGet(_tool_definitions, tool_name, ToolDefinition("", "", EmptyDict))

list_tool_definitions == {_tool_definitions[n] : n \in DOMAIN _tool_definitions}

\* bug: only the table of local classes is checked
NameConflict_localOnly(tool_name) == tool_name \in DOMAIN _tool_registry

\* name already bound as a local class or as an external endpoint
NameConflict(tool_name) ==
    tool_name \in DOMAIN _tool_registry \/ tool_name \in DOMAIN _external_tool_endpoints

\* bug: a name already bound is not rejected
register_tool_raises_overwrite(tool_class) ==
    IF tool_class.kind # "tool" THEN "TypeError"
    ELSE IF ~({"name", "description", "parameters"} \subseteq DOMAIN tool_class.definition)
         THEN "ValueError"
    ELSE IF tool_class.definition.name = "" THEN "ValueError"
    ELSE ""

\* "TypeError", "ValueError" or "" (registered)
register_tool_raises(tool_class) ==
    IF tool_class.kind # "tool" THEN "TypeError"
    ELSE IF ~({"name", "description", "parameters"} \subseteq DOMAIN tool_class.definition)
         THEN "ValueError"
    ELSE IF tool_class.definition.name = "" THEN "ValueError"
    ELSE IF NameConflict(tool_class.definition.name) THEN "ValueError"
    ELSE ""

register_tool(tool_class) ==
    /\ IF register_tool_raises(tool_class) # ""
       THEN UNCHANGED registryVars
       ELSE LET tool_name == tool_class.definition.name IN
            /\ _tool_registry' = (tool_name :> tool_class.cls) @@ _tool_registry
            /\ _tool_definitions' =
                  (tool_name :> ToolDefinition(tool_name,
                                               tool_class.definition.description,
                                               tool_class.definition))
                  @@ _tool_definitions
            /\ UNCHANGED _external_tool_endpoints
    /\ UNCHANGED <<_agent_registry, servingVars>>

register_external_tool_raises(name, endpoint_url) ==
    IF name = "" THEN "TypeError"
    ELSE IF ~HttpUrlValid(endpoint_url) THEN "ValueError"
    ELSE IF NameConflict(name) THEN "ValueError"
    ELSE ""

register_external_tool(name, description, parameters, endpoint_url) ==
    /\ IF register_external_tool_raises(name, endpoint_url) # ""
       THEN UNCHANGED registryVars
       ELSE /\ _external_tool_endpoints' = (name :> endpoint_url) @@ _external_tool_endpoints
            /\ _tool_definitions' =
                  (name :> ToolDefinition(name, description,
                              [name |-> name, description |-> description,
                               parameters |-> parameters, type |-> "external",
                               endpoint |-> endpoint_url]))
                  @@ _tool_definitions
            /\ UNCHANGED _tool_registry
    /\ UNCHANGED <<_agent_registry, servingVars>>

ToolRegistry_clear_all ==
    /\ _tool_registry # EmptyDict \/ _external_tool_endpoints # EmptyDict
    /\ _tool_registry' = EmptyDict
    /\ _external_tool_endpoints' = EmptyDict
    /\ _tool_definitions' = EmptyDict
    /\ UNCHANGED <<_agent_registry, servingVars>>

-----------------------------------------------------------------------------
(* Messages and responses: agentkit/core/models.py *)

SessionContext(sessionId) == [sessionId |-> sessionId, priorMessages |-> << >>]

\* Optional[SessionContext] None
NoSessionContext == [none |-> ""]

MessagePayload(senderId, messageType, payload, sessionContext, task_name) ==
    [senderId |-> senderId, timestamp |-> [epoch |-> 0], messageType |-> messageType,
     payload |-> payload, sessionContext |-> sessionContext, task_name |-> task_name,
     opscore_session_id |-> IF task_name = NoneStr THEN NoneStr ELSE "sess_123",
     opscore_task_id |-> IF task_name = NoneStr THEN NoneStr ELSE "task_456"]

\* the messages sent to run_agent
Messages ==
    {MessagePayload("tool-caller-agent", "tool_invocation", [parameters |-> "{}"],
                    NoSessionContext, NoneStr),
     MessagePayload("tool-caller-agent", "tool_invocation", [tool_name |-> ""],
                    NoSessionContext, NoneStr),
     MessagePayload("tool-caller-agent", "tool_invocation",
                    [tool_name |-> "mock_success", arguments |-> [input |-> "data"]],
                    SessionContext("s1"), NoneStr),
     MessagePayload("tool-caller-agent", "tool_invocation", [tool_name |-> "remote_tool"],
                    NoSessionContext, NoneStr),
     MessagePayload("dispatch-tester", "custom_instruction", [do |-> "something"],
                    NoSessionContext, NoneStr),
     MessagePayload("opscore-sim", "opscore_task", [some_param |-> "value"],
                    SessionContext("s1"), "opscore_defined_task")}

\* Messages and one whose body holds a list where the tool's name belongs: the
\* body is Dict[str, Any], so it passes validation
MessagesAnyBody ==
    Messages
    \cup {MessagePayload("tool-caller-agent", "tool_invocation",
                         [tool_name |-> UnhashableName], NoSessionContext, NoneStr)}

\* payload.model_dump(mode='json'): the datetime becomes its ISO string and
\* the nested SessionContext model a dict (None stays None)
\* bug: the session context is left out of the dump
model_dump_withoutContext(payload) ==
    [senderId |-> payload.senderId,
     timestamp |-> [isoformat |-> payload.timestamp.epoch],
     messageType |-> payload.messageType,
     payload |-> payload.payload,
     task_name |-> payload.task_name,
     opscore_session_id |-> payload.opscore_session_id,
     opscore_task_id |-> payload.opscore_task_id]

model_dump(payload) ==
    [senderId |-> payload.senderId,
     timestamp |-> [isoformat |-> payload.timestamp.epoch],
     messageType |-> payload.messageType,
     payload |-> payload.payload,
     sessionContext |-> payload.sessionContext,
     task_name |-> payload.task_name,
     opscore_session_id |-> payload.opscore_session_id,
     opscore_task_id |-> payload.opscore_task_id]

\* ApiResponse.error_code / data defaults are None; the endpoint decorator
\* fixes the status code of a returned ApiResponse
HTTP_201_CREATED == 201
HTTP_202_ACCEPTED == 202
HTTP_400_BAD_REQUEST == 400
HTTP_404_NOT_FOUND == 404
HTTP_409_CONFLICT == 409
HTTP_500_INTERNAL_SERVER_ERROR == 500
HTTP_503_SERVICE_UNAVAILABLE == 503
HTTP_504_GATEWAY_TIMEOUT == 504

ApiResponse(status, message, data, error_code) ==
    [kind |-> "ApiResponse", status_code |-> HTTP_202_ACCEPTED, status |-> status,
     message |-> message, data |-> data, error_code |-> error_code]

\* raise HTTPException(status_code, detail): detail is carried in message
HTTPException(status_code, detail) ==
    [kind |-> "HTTPException", status_code |-> status_code, status |-> "",
     message |-> detail, data |-> PyNone, error_code |-> NoneStr]

\* the handler has not returned yet
NoResponse ==
    [kind |-> "pending", status_code |-> 0, status |-> "", message |-> << >>,
     data |-> PyNone, error_code |-> NoneStr]

-----------------------------------------------------------------------------
(* What tools and remote peers may do *)

ExcMessages == {"Something broke unexpectedly inside the tool!"}

\* values a tool's execute (or a remote tool's JSON body) may return
ToolResults ==
    {[status |-> "success", result |-> "Executed with {'input': 'data'}"],
     [status |-> "error", error_message |-> "Tool failed as expected"],
     [status |-> "error"],
     [result |-> "no status key"],
     PyStr("error"),
     PyNone}

\* outcome of awaiting tool_instance.execute(...)
Returned(value) == [raised |-> FALSE, value |-> value, exc |-> ""]
Raised(exc) == [raised |-> TRUE, value |-> PyNone, exc |-> exc]
ToolOutcomes == {Returned(v) : v \in ToolResults} \cup {Raised(m) : m \in ExcMessages}

\* outcome of awaiting client.post(...): an httpx exception, or a response
\* with a status code and a body that parses as JSON or does not
HttpReply(kind, status_code, json_ok, body) ==
    [kind |-> kind, status_code |-> status_code, json_ok |-> json_ok, body |-> body]

HttpFailures ==
    {HttpReply(k, 0, FALSE, PyNone) :
        k \in {"TimeoutException", "ConnectError", "RemoteProtocolError", "Exception"}}

HttpReplies ==
    HttpFailures
    \cup {HttpReply("response", 200, TRUE, v) : v \in ToolResults}
    \cup {HttpReply("response", 200, FALSE, PyNone)}
    \cup {HttpReply("response", 404, FALSE, PyStr("oops")),
          HttpReply("response", 500, TRUE,
                    [status |-> "error", error_message |-> "Tool failed as expected"]),
          HttpReply("response", 302, TRUE,
                    [status |-> "success", result |-> "Executed with {'input': 'data'}"])}

\* what the deferred delivery can tell apart: it never reads the body of the
\* answer
DeliveryReplies ==
    HttpFailures \cup {HttpReply("response", c, FALSE, PyNone) : c \in {200, 404, 500}}

\* bug: only 4xx and 5xx responses raise
is_success_below400(status_code) == status_code < 400

\* response.raise_for_status() raises HTTPStatusError unless 2xx
is_success(status_code) == 200 <= status_code /\ status_code <= 299

\* the exception classes the handlers name, each with the classes it derives
\* from (httpx's hierarchy; a JSON decoding error is a ValueError)
Bases(exc) ==
    CASE exc = "TimeoutException" ->
            {"TimeoutException", "TransportError", "RequestError", "HTTPError", "Exception"}
      [] exc = "ConnectError" ->
            {"ConnectError", "NetworkError", "TransportError", "RequestError", "HTTPError",
             "Exception"}
      [] exc = "RemoteProtocolError" ->
            {"RemoteProtocolError", "ProtocolError", "TransportError", "RequestError",
             "HTTPError", "Exception"}
      [] exc = "HTTPStatusError" -> {"HTTPStatusError", "HTTPError", "Exception"}
      [] exc = "JSONDecodeError" -> {"JSONDecodeError", "ValueError", "Exception"}
      [] exc = "TypeError" -> {"TypeError", "Exception"}
      [] exc = "ValueError" -> {"ValueError", "Exception"}
      [] OTHER -> {"Exception"}

\* what client.post(...) followed by response.raise_for_status() raises
\* ("" when nothing is raised)
PostRaises(reply) ==
    IF reply.kind # "response" THEN reply.kind
    ELSE IF ~is_success(reply.status_code) THEN "HTTPStatusError"
    ELSE ""

\* the same, followed by response.json()
PostAndJsonRaises(reply) ==
    IF PostRaises(reply) # "" THEN PostRaises(reply)
    ELSE IF ~reply.json_ok THEN "JSONDecodeError"
    ELSE ""

\* a try statement's except clauses are a sequence of sets of class names; the
\* first clause that matches exc, 0 when none does and exc propagates
CaughtBy(exc, clauses) ==
    LET matching == {i \in 1..Len(clauses) : clauses[i] \cap Bases(exc) # {}}
    IN IF matching = {} THEN 0
       ELSE CHOOSE i \in matching : \A j \in matching : i <= j

-----------------------------------------------------------------------------
(* run_agent: agentkit/api/endpoints/messaging.py *)

ToolNameOf(payload) == DictGet(payload.payload, "tool_name", NoneStr)

ArgumentsOf(payload) == DictGet(payload.payload, "arguments", EmptyDict)

AgentNotFound(agent_id) ==
    HTTPException(HTTP_404_NOT_FOUND, <<"Agent with ID '", agent_id, "' not found.">>)

MissingToolName ==
    HTTPException(HTTP_400_BAD_REQUEST,
                  <<"Missing 'tool_name' in payload for tool_invocation message type.">>)

ToolNotFound(tool_name) ==
    HTTPException(HTTP_404_NOT_FOUND,
                  <<"Tool '", tool_name, "' not found in registry (local or external).">>)

\* bug: the exception's text is dropped from the detail
ToolCrashed_noText(tool_name, exc) ==
    HTTPException(HTTP_500_INTERNAL_SERVER_ERROR,
                  <<"An unexpected error occurred while executing local tool '",
                    tool_name, "'.">>)

ToolCrashed(tool_name, exc) ==
    HTTPException(HTTP_500_INTERNAL_SERVER_ERROR,
                  <<"An unexpected error occurred while executing local tool '",
                    tool_name, "': ", exc>>)

NoCallbackEndpoint(agent_id, messageType) ==
    HTTPException(HTTP_400_BAD_REQUEST,
                  <<"Agent '", agent_id,
                    "' has no registered contact endpoint. Cannot dispatch message type '",
                    messageType, "'.">>)

InvalidCallbackEndpoint(agent_id) ==
    HTTPException(HTTP_500_INTERNAL_SERVER_ERROR,
                  <<"Agent '", agent_id, "' has an invalid registered contact endpoint URL.">>)

\* bug: the acknowledgement carries status "accepted" and no data
TaskAccepted_noData(agent_id) ==
    ApiResponse("accepted",
                <<"Task accepted for agent ", agent_id, ". Dispatch scheduled.">>,
                PyNone, NoneStr)

TaskAccepted(agent_id) ==
    ApiResponse("success",
                <<"Task accepted for agent ", agent_id, ". Dispatch scheduled.">>,
                [agentId |-> agent_id, dispatch_status |-> "scheduled"],
                NoneStr)

\* bug: every mapping whose status is not "success" counts as an error
IsHandledError_notSuccess(tool_result) ==
    IsDict(tool_result) /\ DictGet(tool_result, "status", NoneStr) # "success"

\* isinstance(tool_result, dict) and tool_result.get("status") == "error"
IsHandledError(tool_result) ==
    IsDict(tool_result) /\ DictGet(tool_result, "status", NoneStr) = "error"

\* bug: a handled tool error is raised as a 500 instead of being returned
LocalToolResponse_raises(tool_name, tool_result) ==
    IF IsHandledError(tool_result)
    THEN HTTPException(HTTP_500_INTERNAL_SERVER_ERROR,
                       <<"Local tool '", tool_name, "' execution failed: ",
                         DictGet(tool_result, "error_message", "Unknown tool error")>>)
    ELSE ApiResponse("success",
                     <<"Local tool '", tool_name, "' executed successfully.">>,
                     tool_result, NoneStr)

LocalToolResponse(tool_name, tool_result) ==
    IF IsHandledError(tool_result)
    THEN ApiResponse("error",
                     <<"Local tool '", tool_name, "' execution failed: ",
                       DictGet(tool_result, "error_message", "Unknown tool error")>>,
                     tool_result, "LOCAL_TOOL_EXECUTION_FAILED")
    ELSE ApiResponse("success",
                     <<"Local tool '", tool_name, "' executed successfully.">>,
                     tool_result, NoneStr)

\* bug: a handled error is returned without its error code
ExternalToolResponse_noCode(tool_name, tool_result) ==
    IF IsHandledError(tool_result)
    THEN ApiResponse("error",
                     <<"External tool '", tool_name, "' execution failed: ",
                       DictGet(tool_result, "error_message", "Unknown tool error")>>,
                     tool_result, NoneStr)
    ELSE ApiResponse("success",
                     <<"External tool '", tool_name, "' executed successfully.">>,
                     tool_result, NoneStr)

\* bug: the remote body is not inspected for a handled error
ExternalToolResponse_unchecked(tool_name, tool_result) ==
    ApiResponse("success",
                <<"External tool '", tool_name, "' executed successfully.">>,
                tool_result, NoneStr)

ExternalToolResponse(tool_name, tool_result) ==
    IF IsHandledError(tool_result)
    THEN ApiResponse("error",
                     <<"External tool '", tool_name, "' execution failed: ",
                       DictGet(tool_result, "error_message", "Unknown tool error")>>,
                     tool_result, "EXTERNAL_TOOL_EXECUTION_FAILED")
    ELSE ApiResponse("success",
                     <<"External tool '", tool_name, "' executed successfully.">>,
                     tool_result, NoneStr)

\* an exception that leaves run_agent as it was raised; the server answers it
\* with a bare 500
RawException(exc) ==
    [kind |-> "Exception", status_code |-> HTTP_500_INTERNAL_SERVER_ERROR,
     status |-> "", message |-> <<exc>>, data |-> PyNone, error_code |-> NoneStr]

\* bug: the catch-all clause comes first
ToolExceptClauses_genericFirst ==
    <<{"Exception"}, {"TimeoutException"}, {"ConnectError"}, {"HTTPStatusError"}>>

\* the except clauses around the remote tool's client.post / raise_for_status /
\* response.json, in the order they are written
ToolExceptClauses ==
    <<{"TimeoutException"}, {"ConnectError"}, {"HTTPStatusError"}, {"Exception"}>>

\* the external branch from the reply to client.post on: the try body's return
\* or the except clause that catches what it raised
ExternalToolReply(tool_name, external_endpoint, reply) ==
    LET exc == PostAndJsonRaises(reply)
        at == CaughtBy(exc, ToolExceptClauses)
        caught == IF at = 0 THEN {} ELSE ToolExceptClauses[at]
    IN CASE exc = "" -> ExternalToolResponse(tool_name, reply.body)
         [] exc # "" /\ at = 0 -> RawException(exc)
         [] caught = {"TimeoutException"} ->
               HTTPException(HTTP_504_GATEWAY_TIMEOUT,
                             <<"Request to external tool '", tool_name, "' timed out.">>)
         [] caught = {"ConnectError"} ->
               HTTPException(HTTP_503_SERVICE_UNAVAILABLE,
                             <<"Could not connect to external tool '", tool_name, "' at ",
                               external_endpoint.host, ".">>)
         [] caught = {"HTTPStatusError"} ->
               HTTPException(reply.status_code,
                             <<"External tool '", tool_name, "' returned error: Status ",
                               ToString(reply.status_code), " - Response: ",
                               DictGet(reply.body, "$str", "<json>")>>)
         [] OTHER ->
               HTTPException(HTTP_500_INTERNAL_SERVER_ERROR,
                             <<"An unexpected error occurred while calling external tool '",
                               tool_name, "': ", exc>>)

\* nothing awaited (yet)
NoOutcome == [none |-> ""]

\* one invocation of run_agent: its arguments, where it is suspended
\* ("await_post", "await_execute") or "done", the endpoint it resolved, what
\* it returned or raised, the calls it has made so far, and what its tool
\* (constructor, execute or remote POST) gave it
Request(agent_id, payload, pc, external_endpoint, response, trace) ==
    [agent_id |-> agent_id, payload |-> payload, pc |-> pc,
     external_endpoint |-> external_endpoint, response |-> response, trace |-> trace,
     awaited |-> NoOutcome]

HttpCall(by, r, url, json) == [by |-> by, r |-> r, url |-> url, json |-> json]

\* seconds a client waits before client.post raises TimeoutException
EXTERNAL_CALL_TIMEOUT == 15

\* httpx.AsyncClient(timeout=EXTERNAL_CALL_TIMEOUT) opened by ("tool" or
\* "dispatch") for invocation r
Client(by, r) == [by |-> by, r |-> r, timeout |-> EXTERNAL_CALL_TIMEOUT]

\* bug: the client is closed only when the block is left without an exception
aexit_unlessRaised(opened, client, exc) ==
    IF exc = "" THEN opened \ {client} ELSE opened

\* leaving the "async with" block closes its client, whether the block is
\* left by its end, by return or by an exception exc
aexit(opened, client, exc) == opened \ {client}

Task(agent_id, contact_endpoint, payload) ==
    [func |-> "dispatch_to_agent_endpoint", agent_id |-> agent_id,
     contact_endpoint |-> contact_endpoint, payload |-> payload]

\* what a segment of the handler does besides producing a Request
Effects(req, tasks, calls, opened) ==
    [req |-> req, tasks |-> tasks, calls |-> calls, opened |-> opened]

Finished(agent_id, payload, response, trace) ==
    Effects(Request(agent_id, payload, "done", NoUrl, response, trace), << >>, << >>, {})

\* tool_class() raised: the except clause of the local branch
Crashed(agent_id, payload, tool_name, ctor_exc) ==
    Effects([Request(agent_id, payload, "done", NoUrl, ToolCrashed(tool_name, ctor_exc),
                     <<"get_agent", "get_tool_endpoint", "get_tool_class", "tool_class">>)
                EXCEPT !.awaited = Raised(ctor_exc)],
            << >>, << >>, {})

\* bug: the lookup result is not checked
AgentMissing_unchecked(target_agent) == FALSE

\* not target_agent
AgentMissing(target_agent) == target_agent = NoAgent

\* bug: only an absent key is rejected, an empty name is looked up
ToolNameMissing_absentOnly(tool_name) == tool_name = NoneStr

\* not tool_name
ToolNameMissing(tool_name) == Falsy(tool_name)

\* bug: the endpoint is not checked for None before validation
EndpointMissing_unchecked(contact_endpoint_str) == FALSE

\* not contact_endpoint_str
EndpointMissing(contact_endpoint_str) == contact_endpoint_str = NoUrl

\* bug: the handler awaits the delivery itself before it returns
ScheduleDispatch_inline(r, agent_id, contact_endpoint_str, payload) ==
    Effects(Request(agent_id, payload, "done", NoUrl, TaskAccepted(agent_id),
                    <<"get_agent", "HttpUrl", "AsyncClient", "post">>),
            << >>,
            <<HttpCall("dispatch", r, contact_endpoint_str, model_dump(payload))>>, {})

\* background_tasks.add_task(dispatch_to_agent_endpoint, ...) followed by the
\* return of the acknowledgement
ScheduleDispatch(r, agent_id, contact_endpoint_str, payload) ==
    Effects(Request(agent_id, payload, "done", NoUrl, TaskAccepted(agent_id),
                    <<"get_agent", "HttpUrl", "add_task">>),
            <<Task(agent_id, contact_endpoint_str, payload)>>, << >>, {})

\* step 3 of run_agent: any messageType other than tool_invocation
\* bug: the task is scheduled before the address is validated
ForwardPath_scheduleFirst(r, agent_id, target_agent, payload) ==
    LET contact_endpoint_str == target_agent.contactEndpoint IN
    IF EndpointMissing(contact_endpoint_str)
    THEN Finished(agent_id, payload, NoCallbackEndpoint(agent_id, payload.messageType),
                  <<"get_agent">>)
    ELSE IF ~HttpUrlValid(contact_endpoint_str)
    THEN Effects(Request(agent_id, payload, "done", NoUrl,
                         InvalidCallbackEndpoint(agent_id),
                         <<"get_agent", "add_task", "HttpUrl">>),
                 <<Task(agent_id, contact_endpoint_str, payload)>>, << >>, {})
    ELSE ScheduleDispatch(r, agent_id, contact_endpoint_str, payload)

ForwardPath(r, agent_id, target_agent, payload) ==
    LET contact_endpoint_str == target_agent.contactEndpoint IN
    IF EndpointMissing(contact_endpoint_str)
    THEN Finished(agent_id, payload, NoCallbackEndpoint(agent_id, payload.messageType),
                  <<"get_agent">>)
    ELSE IF ~HttpUrlValid(contact_endpoint_str)
    THEN Finished(agent_id, payload, InvalidCallbackEndpoint(agent_id),
                  <<"get_agent", "HttpUrl">>)
    ELSE ScheduleDispatch(r, agent_id, contact_endpoint_str, payload)

\* step 2 of run_agent up to its first await; ctor_exc is the message of the
\* exception tool_class() raises, "" when it raises none
ToolPath(r, agent_id, payload, ctor_exc) ==
    LET tool_name == ToolNameOf(payload)
        arguments == ArgumentsOf(payload)
    IN
    IF ToolNameMissing(tool_name)
    THEN Finished(agent_id, payload, MissingToolName, <<"get_agent">>)
    ELSE IF get_tool_endpoint_raises(tool_name)
    THEN Finished(agent_id, payload, RawException("TypeError"),
                  <<"get_agent", "get_tool_endpoint">>)
    ELSE LET external_endpoint == get_tool_endpoint(tool_name) IN
         IF external_endpoint # NoUrl
         THEN Effects(Request(agent_id, payload, "await_post", external_endpoint,
                              NoResponse,
                              <<"get_agent", "get_tool_endpoint", "AsyncClient", "post">>),
                      << >>,
                      <<HttpCall("tool", r, external_endpoint, [arguments |-> arguments])>>,
                      {Client("tool", r)})
         ELSE LET tool_class == get_tool_class(tool_name) IN
              IF tool_class = NoClass
              THEN Finished(agent_id, payload, ToolNotFound(tool_name),
                            <<"get_agent", "get_tool_endpoint", "get_tool_class">>)
              ELSE IF ctor_exc # ""
              THEN Crashed(agent_id, payload, tool_name, ctor_exc)
              ELSE Effects(Request(agent_id, payload, "await_execute", NoUrl, NoResponse,
                                   <<"get_agent", "get_tool_endpoint", "get_tool_class",
                                     "tool_class", "execute">>),
                           << >>, << >>, {})

\* bug: the catalogue is consulted before the agent is resolved
run_agent_catalogueFirst(r, agent_id, payload, ctor_exc) ==
    IF payload.messageType = "tool_invocation"
    THEN ToolPath(r, agent_id, payload, ctor_exc)
    ELSE IF AgentMissing(get_agent(agent_id))
    THEN Finished(agent_id, payload, AgentNotFound(agent_id), <<"get_agent">>)
    ELSE ForwardPath(r, agent_id, get_agent(agent_id), payload)

\* bug: the callback address is required before the kinds are told apart
run_agent_callbackFirst(r, agent_id, payload, ctor_exc) ==
    LET target_agent == get_agent(agent_id) IN
    IF AgentMissing(target_agent)
    THEN Finished(agent_id, payload, AgentNotFound(agent_id), <<"get_agent">>)
    ELSE IF EndpointMissing(target_agent.contactEndpoint)
    THEN Finished(agent_id, payload, NoCallbackEndpoint(agent_id, payload.messageType),
                  <<"get_agent">>)
    ELSE IF payload.messageType = "tool_invocation"
    THEN ToolPath(r, agent_id, payload, ctor_exc)
    ELSE ForwardPath(r, agent_id, target_agent, payload)

\* run_agent from its entry to its first await or to its return
run_agent(r, agent_id, payload, ctor_exc) ==
    LET target_agent == get_agent(agent_id) IN
    IF AgentMissing(target_agent)
    THEN Finished(agent_id, payload, AgentNotFound(agent_id), <<"get_agent">>)
    ELSE IF payload.messageType = "tool_invocation"
    THEN ToolPath(r, agent_id, payload, ctor_exc)
    ELSE ForwardPath(r, agent_id, target_agent, payload)

-----------------------------------------------------------------------------
(* dispatch_to_agent_endpoint: the deferred delivery *)

LogRecord(level, what) == [level |-> level, what |-> what]

\* bug: no catch-all clause
DispatchExceptClauses_noCatchAll ==
    <<{"TimeoutException", "RemoteProtocolError"}, {"ConnectError"}, {"HTTPStatusError"}>>

\* the except clauses of dispatch_to_agent_endpoint, in the order they are
\* written
DispatchExceptClauses ==
    <<{"TimeoutException", "RemoteProtocolError"}, {"ConnectError"}, {"HTTPStatusError"},
      {"Exception"}>>

\* whether what the POST raised leaves dispatch_to_agent_endpoint
DispatchRaises(reply) ==
    PostRaises(reply) # "" /\ CaughtBy(PostRaises(reply), DispatchExceptClauses) = 0

\* what dispatch_to_agent_endpoint logs for reply: the try body's last
\* statement or the except clause that catches what the POST raised
DispatchLog(reply) ==
    LET exc == PostRaises(reply)
        at == CaughtBy(exc, DispatchExceptClauses)
        caught == IF at = 0 THEN {} ELSE DispatchExceptClauses[at]
    IN CASE exc = "" -> LogRecord("info", "Successfully dispatched")
         [] caught = {"TimeoutException", "RemoteProtocolError"} ->
               LogRecord("error", "timed out or connection failed unexpectedly")
         [] caught = {"ConnectError"} -> LogRecord("error", "Could not connect")
         [] caught = {"HTTPStatusError"} -> LogRecord("error", "returned error")
         [] OTHER -> LogRecord("exception", "unexpected error")

\* bug: a failed POST is attempted once more
Reattempt_afterFailure(dispatch, reply) ==
    PostRaises(reply) # "" /\ Len(dispatch.log) = 0

\* whether the task POSTs again after reply: no clause loops or reschedules
Reattempt(dispatch, reply) == FALSE

\* run of one deferred task: "none" (not started), "posting" (awaiting
\* client.post) or "done" (ended); raised tells whether it ended by an
\* exception leaving it, awaited what its POST gave it
Dispatch(state, dispatch_payload, log) ==
    [state |-> state, dispatch_payload |-> dispatch_payload, log |-> log, raised |-> FALSE,
     awaited |-> NoOutcome]

NoDispatch == Dispatch("none", EmptyDict, << >>)

-----------------------------------------------------------------------------
(* Actions *)

\* the result of a call: the operation, the exception it raised ("" when it
\* returned) and, for the register API, the status code of the answer
Called(op, arg, exc, message, status_code) ==
    [op |-> op, arg |-> arg, exc |-> exc, message |-> message, status_code |-> status_code]

NoCall == Called("", EmptyDict, "", << >>, 0)

Init ==
    /\ _agent_registry = EmptyDict
    /\ _tool_registry = EmptyDict
    /\ _external_tool_endpoints = EmptyDict
    /\ _tool_definitions = EmptyDict
    /\ requests = << >>
    /\ background_tasks = << >>
    /\ dispatches = << >>
    /\ http_calls = << >>
    /\ clients = {}
    /\ last_call = NoCall

\* a call of run_agent runs to its first await or to its return
Serve(agent_id, payload, ctor_exc) ==
    /\ LET out == run_agent(Len(requests) + 1, agent_id, payload, ctor_exc) IN
       /\ requests' = Append(requests, out.req)
       /\ background_tasks' = Append(background_tasks, out.tasks)
       /\ dispatches' = Append(dispatches, NoDispatch)
       /\ http_calls' = http_calls \o out.calls
       /\ clients' = clients \cup out.opened
    /\ UNCHANGED <<_agent_registry, registryVars, last_call>>

\* at most MaxReq calls of run_agent in one behaviour
RunAgent(agent_id, payload, ctor_exc) ==
    /\ Len(requests) < MaxReq
    /\ Serve(agent_id, payload, ctor_exc)

\* await tool_instance.execute(...) completes and the handler returns
LocalToolCompletes(r, outcome) ==
    /\ r \in 1..Len(requests)
    /\ requests[r].pc = "await_execute"
    /\ LET tool_name == ToolNameOf(requests[r].payload) IN
       requests' = [requests EXCEPT
                       ![r].pc = "done",
                       ![r].awaited = outcome,
                       ![r].response =
                           IF outcome.raised
                           THEN ToolCrashed(tool_name, outcome.exc)
                           ELSE LocalToolResponse(tool_name, outcome.value)]
    /\ UNCHANGED <<_agent_registry, registryVars, background_tasks, dispatches,
                   http_calls, clients, last_call>>

\* await client.post(external_endpoint, ...) completes, the async with block
\* is left and the handler returns or raises
ExternalToolReplies(r, reply) ==
    /\ r \in 1..Len(requests)
    /\ requests[r].pc = "await_post"
    /\ requests' = [requests EXCEPT
                       ![r].pc = "done",
                       ![r].awaited = reply,
                       ![r].response =
                           ExternalToolReply(ToolNameOf(requests[r].payload),
                                             requests[r].external_endpoint, reply)]
    /\ clients' = aexit(clients, Client("tool", r), PostAndJsonRaises(reply))
    /\ UNCHANGED <<_agent_registry, registryVars, background_tasks, dispatches, http_calls,
                   last_call>>

\* bug: the tasks of all invocations share one slot, which holds the task
\* scheduled last
TaskOf_shared(r) ==
    LET scheduled == {q \in 1..Len(background_tasks) : Len(background_tasks[q]) > 0}
    IN background_tasks[CHOOSE q \in scheduled : \A p \in scheduled : p <= q][1]

\* the task of invocation r: every invocation is given its own BackgroundTasks
\* object, and the task holds the arguments add_task was called with
TaskOf(r) == background_tasks[r][1]

\* bug: the address is looked up in the directory again when the task runs
DispatchTarget_lookup(task) == get_agent(task.agent_id).contactEndpoint

\* the address dispatch_to_agent_endpoint POSTs to: its contact_endpoint
\* argument
DispatchTarget(task) == task.contact_endpoint

\* the framework runs a response's background tasks after the response has
\* been sent: dispatch_to_agent_endpoint up to its await client.post
StartDispatch(r) ==
    /\ r \in 1..Len(requests)
    /\ requests[r].pc = "done"
    /\ Len(background_tasks[r]) > 0
    /\ dispatches[r].state = "none"
    /\ LET task == TaskOf(r)
           dispatch_payload == model_dump(task.payload)
       IN
       /\ dispatches' = [dispatches EXCEPT
                            ![r] = Dispatch("posting", dispatch_payload, dispatches[r].log)]
       /\ http_calls' = Append(http_calls,
                               HttpCall("dispatch", r, DispatchTarget(task),
                                        dispatch_payload))
       /\ clients' = clients \cup {Client("dispatch", r)}
    /\ UNCHANGED <<_agent_registry, registryVars, requests, background_tasks, last_call>>

\* await client.post(contact_endpoint, ...) completes: the result is logged
\* and the task ends
FinishDispatch(r, reply) ==
    /\ r \in 1..Len(requests)
    /\ dispatches[r].state = "posting"
    /\ dispatches' = [dispatches EXCEPT
                         ![r].state = IF Reattempt(dispatches[r], reply)
                                      THEN "none" ELSE "done",
                         ![r].log = IF DispatchRaises(reply)
                                    THEN @ ELSE Append(@, DispatchLog(reply)),
                         ![r].raised = DispatchRaises(reply),
                         ![r].awaited = reply]
    /\ clients' = aexit(clients, Client("dispatch", r), PostRaises(reply))
    /\ UNCHANGED <<_agent_registry, registryVars, requests, background_tasks, http_calls,
                   last_call>>

-----------------------------------------------------------------------------
(* The directory, the catalogue and the register API seen by their callers *)

\* what tool classes a caller may hand to register_tool: a second class with
\* MockSuccessTool's name, a class named like the external tool, an instance
\* in place of a class, and a class whose definition has an empty name
ToolClasses ==
    {MockSuccessTool,
     ToolClass("MockSuccessToolClone", "tool", ToolDef("mock_success")),
     ToolClass("RemoteNamedTool", "tool", ToolDef("remote_tool")),
     ToolClass("MockSuccessTool()", "not_class", ToolDef("mock_success")),
     ToolClass("NamelessTool", "tool", ToolDef(""))}

\* the message of the exception register_tool raises: a ValueError raised
\* inside its try block is raised again by its except clause, wrapped
register_tool_message(tool_class) ==
    CASE register_tool_raises(tool_class) = "" -> << >>
      [] tool_class.kind # "tool" -> <<"Expected a class, but got ", tool_class.cls>>
      [] tool_class.definition.name = "" ->
            <<"Failed to register tool ", tool_class.cls, ": ",
              "Tool definition 'name' must be a non-empty string.">>
      [] OTHER ->
            <<"Failed to register tool ", tool_class.cls, ": ",
              "Tool name '", tool_class.definition.name,
              "' conflicts with an existing registration.">>

Call_register_tool(tool_class) ==
    /\ register_tool(tool_class)
    /\ last_call' = Called("register_tool", tool_class, register_tool_raises(tool_class),
                           register_tool_message(tool_class), 0)

register_external_tool_message(name, endpoint_url) ==
    CASE register_external_tool_raises(name, endpoint_url) = "" -> << >>
      [] name = "" -> <<"Tool name must be a non-empty string.">>
      [] ~HttpUrlValid(endpoint_url) -> <<"Invalid endpoint URL '", endpoint_url.host, "': ">>
      [] OTHER -> <<"Tool name '", name, "' conflicts with an existing registration.">>

Call_register_external_tool(name, endpoint_url) ==
    /\ register_external_tool(name, "d", "{}", endpoint_url)
    /\ last_call' = Called("register_external_tool",
                           [name |-> name, endpoint_url |-> endpoint_url],
                           register_external_tool_raises(name, endpoint_url),
                           register_external_tool_message(name, endpoint_url), 0)

Call_ToolRegistry_clear_all ==
    /\ ToolRegistry_clear_all
    /\ last_call' = Called("ToolRegistry.clear_all", EmptyDict, "", << >>, 0)

\* agents a caller may hand to add_agent: two ids, two names, two addresses
AgentNames == {"MessagingTestAgent", "DuplicateAPIName"}

AnyAgentInfos ==
    {AgentInfo(id, name, ep) :
        id \in {"a1", "a2"}, name \in AgentNames, ep \in {ReceiverUrl, OtherUrl}}

\* the message of the ValueError add_agent raises
add_agent_message(agent_info) ==
    IF agent_info.agentId \in DOMAIN _agent_registry
    THEN <<"Agent with ID ", agent_info.agentId, " already registered.">>
    ELSE IF get_agent_by_name(agent_info.agentName) # NoAgent
    THEN <<"Agent with name '", agent_info.agentName, "' already registered.">>
    ELSE << >>

Call_add_agent(agent_info) ==
    /\ add_agent(agent_info)
    /\ last_call' = Called("add_agent", agent_info,
                           IF add_agent_raises(agent_info) THEN "ValueError" ELSE "",
                           add_agent_message(agent_info), 0)

Call_AgentStorage_clear_all ==
    /\ AgentStorage_clear_all
    /\ last_call' = Called("AgentStorage.clear_all", EmptyDict, "", << >>, 0)

\* the except clauses of register_agent, in the order they are written
RegisterExceptClauses == <<{"ValueError"}, {"Exception"}>>

\* POST /agents/register: the record gets a fresh uuid4 as its agentId, is
\* handed to add_agent, and what add_agent raises is answered by the except
\* clause that catches it (the webhook notification it schedules reads
\* nothing of the directory)
register_agent(agentName, contactEndpoint, uuid) ==
    LET agent_info == AgentInfo(uuid, agentName, contactEndpoint)
        exc == IF add_agent_raises(agent_info) THEN "ValueError" ELSE ""
        at == CaughtBy(exc, RegisterExceptClauses)
    IN
    /\ uuid \notin DOMAIN _agent_registry
    /\ add_agent(agent_info)
    /\ last_call' =
          IF exc = ""
          THEN Called("register_agent", agent_info, "",
                      <<"Agent '", agentName, "' registered successfully.">>,
                      HTTP_201_CREATED)
          ELSE Called("register_agent", agent_info, "HTTPException",
                      add_agent_message(agent_info),
                      IF at = 1 THEN HTTP_409_CONFLICT ELSE HTTP_500_INTERNAL_SERVER_ERROR)

\* values uuid.uuid4() gives
Uuids == {"uuid-1", "uuid-2"}

NextRegistration ==
    \/ \E tool_class \in ToolClasses : Call_register_tool(tool_class)
    \/ \E name \in {"remote_tool", "mock_success", ""}, endpoint_url \in {ToolUrl, BadUrl} :
          Call_register_external_tool(name, endpoint_url)
    \/ Call_ToolRegistry_clear_all
    \/ \E agent_info \in AnyAgentInfos : Call_add_agent(agent_info)
    \/ Call_AgentStorage_clear_all
    \/ \E agentName \in AgentNames, contactEndpoint \in {ReceiverUrl, OtherUrl},
          uuid \in Uuids :
          register_agent(agentName, contactEndpoint, uuid)

SpecRegistration == Init /\ [][NextRegistration]_vars

\* (what the directory and catalogue calls give back is not recorded here)
Next ==
    \/ \E agent_info \in AgentInfos : add_agent(agent_info) /\ UNCHANGED last_call
    \/ AgentStorage_clear_all /\ UNCHANGED last_call
    \/ \E agent_id \in AgentIds, ep \in {NoUrl, BadUrl} :
          set_contactEndpoint(agent_id, ep) /\ UNCHANGED last_call
    \/ register_tool(MockSuccessTool) /\ UNCHANGED last_call
    \/ register_external_tool("remote_tool", "d", "{}", ToolUrl) /\ UNCHANGED last_call
    \/ ToolRegistry_clear_all /\ UNCHANGED last_call
    \/ \E agent_id \in AgentIds, payload \in Messages, ctor_exc \in {""} \cup ExcMessages :
          RunAgent(agent_id, payload, ctor_exc)
    \/ \E r \in 1..MaxReq, outcome \in ToolOutcomes : LocalToolCompletes(r, outcome)
    \/ \E r \in 1..MaxReq, reply \in HttpReplies : ExternalToolReplies(r, reply)
    \/ \E r \in 1..MaxReq : StartDispatch(r)
    \/ \E r \in 1..MaxReq, reply \in DeliveryReplies : FinishDispatch(r, reply)

Spec == Init /\ [][Next]_vars

\* the same program served any message body the data model admits
NextAnyBody ==
    \/ Next
    \/ \E agent_id \in AgentIds, payload \in MessagesAnyBody \ Messages,
          ctor_exc \in {""} \cup ExcMessages :
          RunAgent(agent_id, payload, ctor_exc)

SpecAnyBody == Init /\ [][NextAnyBody]_vars

\* the server runs a scheduled task once the response is out, and a POST ends
\* within EXTERNAL_CALL_TIMEOUT: with an answer or with a TimeoutException
SpecFair ==
    /\ Spec
    /\ \A r \in 1..MaxReq : WF_vars(StartDispatch(r))
    /\ \A r \in 1..MaxReq : WF_vars(\E reply \in DeliveryReplies : FinishDispatch(r, reply))

\* how many calls of run_agent are in progress together under SpecConcurrent
MaxConcurrent == 2

\* the messages that take the forward path
ForwardMessages == {m \in Messages : m.messageType # "tool_invocation"}

\* several forward messages for one agent in progress together: the forward
\* path of run_agent has no await, so each call runs to its return in one
\* step, and the tasks the calls scheduled interleave at their await of
\* client.post
NextConcurrent ==
    \/ \E agent_info \in AgentInfos : add_agent(agent_info) /\ UNCHANGED last_call
    \/ \E payload \in ForwardMessages :
          Len(requests) < MaxConcurrent /\ Serve("a1", payload, "")
    \/ \E r \in 1..MaxConcurrent : StartDispatch(r)
    \/ \E r \in 1..MaxConcurrent, reply \in DeliveryReplies : FinishDispatch(r, reply)

SpecConcurrent == Init /\ [][NextConcurrent]_vars

-----------------------------------------------------------------------------
(* Properties *)

Range(seq) == {seq[i] : i \in 1..Len(seq)}

\* the step is a call of run_agent, and NewReq the invocation it adds
Invoked == Len(requests') = Len(requests) + 1
NewReq == requests'[Len(requests')]

Registered(agent_id) == agent_id \in DOMAIN _agent_registry

IsToolInvocation(req) == req.payload.messageType = "tool_invocation"

\* the name is bound in the catalogue, to a class or to an endpoint
Bound(tool_name) ==
    tool_name \in DOMAIN _tool_registry \cup DOMAIN _external_tool_endpoints

\* the invocation made no call beyond the ones named and left nothing behind
NothingStarted(r) ==
    /\ background_tasks'[r] = << >>
    /\ http_calls' = http_calls
    /\ clients' = clients

C2_UnknownAgent ==
    [][ (Invoked /\ ~Registered(NewReq.agent_id))
        => /\ NewReq.pc = "done"
           /\ NewReq.response = AgentNotFound(NewReq.agent_id)
           /\ NewReq.response.kind = "HTTPException"
           /\ NewReq.response.status_code = 404
           /\ NewReq.trace = <<"get_agent">>
           /\ NothingStarted(Len(requests'))
      ]_vars

\* a tool invocation naming a bound tool, refused for its unknown agent
C2_Witness ==
    \E r \in 1..Len(requests) :
        /\ requests[r].response = AgentNotFound(requests[r].agent_id)
        /\ IsToolInvocation(requests[r])
        /\ NameConflict(ToolNameOf(requests[r].payload))

\* C3: a tool_invocation for a registered agent whose body has no tool_name
\* key, or an empty tool_name, ends with MissingToolName (400) without any
\* catalogue lookup (get_tool_endpoint, get_tool_class) and without running
\* or calling a tool.
C3_MissingToolName ==
    [][ (/\ Invoked
         /\ Registered(NewReq.agent_id)
         /\ IsToolInvocation(NewReq)
         /\ \/ "tool_name" \notin DOMAIN NewReq.payload.payload
            \/ NewReq.payload.payload.tool_name = "")
        => /\ NewReq.pc = "done"
           /\ NewReq.response = MissingToolName
           /\ NewReq.response.kind = "HTTPException"
           /\ NewReq.response.status_code = 400
           /\ Range(NewReq.trace) \cap
                 {"get_tool_endpoint", "get_tool_class", "tool_class", "execute", "post"} = {}
           /\ NothingStarted(Len(requests'))
      ]_vars

\* an empty tool_name refused while a tool is bound in the catalogue
C3_Witness ==
    \E r \in 1..Len(requests) :
        /\ requests[r].response = MissingToolName
        /\ "tool_name" \in DOMAIN requests[r].payload.payload
        /\ _tool_definitions # EmptyDict

\* C4: a tool_invocation for a registered agent whose non-empty tool_name is
\* bound neither as a local class nor as an external endpoint ends with
\* ToolNotFound (404); no tool is constructed or executed and no HTTP call
\* is made.
C4_ToolNotFound ==
    [][ (/\ Invoked
         /\ Registered(NewReq.agent_id)
         /\ IsToolInvocation(NewReq)
         /\ ~Falsy(ToolNameOf(NewReq.payload))
         /\ ~NameConflict(ToolNameOf(NewReq.payload)))
        => /\ NewReq.pc = "done"
           /\ NewReq.response = ToolNotFound(ToolNameOf(NewReq.payload))
           /\ NewReq.response.kind = "HTTPException"
           /\ NewReq.response.status_code = 404
           /\ Range(NewReq.trace) \cap {"tool_class", "execute", "post"} = {}
           /\ NothingStarted(Len(requests'))
      ]_vars

\* an unbound name refused while another tool is bound
C4_Witness ==
    \E r \in 1..Len(requests) :
        /\ requests[r].response = ToolNotFound(ToolNameOf(requests[r].payload))
        /\ _tool_definitions # EmptyDict

Last(seq) == seq[Len(seq)]

\* invocation r has returned from awaiting a local tool's execute, which
\* returned (did not raise) a value
LocalToolReturned(r) ==
    /\ requests[r].pc = "done"
    /\ Last(requests[r].trace) = "execute"
    /\ ~requests[r].awaited.raised

\* value is a mapping with status == "error"
ErrorMapping(value) ==
    /\ "$str" \notin DOMAIN value
    /\ "$none" \notin DOMAIN value
    /\ "status" \in DOMAIN value
    /\ value.status = "error"

\* C5: when a registered local tool's execute returns a value that is not a
\* mapping with status == "error", run_agent returns an ApiResponse with
\* status "success", no error_code, and data equal to that value.
C5_LocalSuccess ==
    \A r \in 1..Len(requests) :
        (LocalToolReturned(r) /\ ~ErrorMapping(requests[r].awaited.value))
        => /\ requests[r].response.kind = "ApiResponse"
           /\ requests[r].response.status = "success"
           /\ requests[r].response.error_code = NoneStr
           /\ requests[r].response.data = requests[r].awaited.value

\* a local tool returned a mapping without a status key
C5_Witness ==
    \E r \in 1..Len(requests) :
        /\ LocalToolReturned(r)
        /\ requests[r].awaited.value = [result |-> "no status key"]
        /\ requests[r].response.status = "success"

\* C6: when a registered local tool's execute returns a mapping
\* {status: "error", error_message: m}, run_agent returns (does not raise) an
\* ApiResponse with status "error", error_code LOCAL_TOOL_EXECUTION_FAILED
\* and data equal to the mapping, so data.error_message = m.
C6_LocalHandledError ==
    \A r \in 1..Len(requests) :
        (/\ LocalToolReturned(r)
         /\ ErrorMapping(requests[r].awaited.value)
         /\ "error_message" \in DOMAIN requests[r].awaited.value)
        => /\ requests[r].response.kind = "ApiResponse"
           /\ requests[r].response.status = "error"
           /\ requests[r].response.error_code = "LOCAL_TOOL_EXECUTION_FAILED"
           /\ requests[r].response.data = requests[r].awaited.value
           /\ requests[r].response.data.error_message =
                 requests[r].awaited.value.error_message

\* a local tool returned {status: "error", error_message: ...}
C6_Witness ==
    \E r \in 1..Len(requests) :
        /\ LocalToolReturned(r)
        /\ requests[r].awaited.value =
              [status |-> "error", error_message |-> "Tool failed as expected"]
        /\ requests[r].response.kind = "ApiResponse"

\* C7: when constructing a registered local tool or its execute raises,
\* run_agent raises the 500 ToolCrashed failure: no ApiResponse (neither
\* success nor LOCAL_TOOL_EXECUTION_FAILED), no data, and the exception's
\* message is part of the detail.
C7_ToolCrashed ==
    \A r \in 1..Len(requests) :
        (/\ requests[r].pc = "done"
         /\ Last(requests[r].trace) \in {"tool_class", "execute"}
         /\ requests[r].awaited.raised)
        => /\ requests[r].response.kind = "HTTPException"
           /\ requests[r].response.status_code = 500
           /\ requests[r].response.status # "success"
           /\ requests[r].response.error_code # "LOCAL_TOOL_EXECUTION_FAILED"
           /\ requests[r].response.data = PyNone
           /\ requests[r].awaited.exc \in Range(requests[r].response.message)

\* execute raised
C7_Witness ==
    \E r \in 1..Len(requests) :
        /\ requests[r].pc = "done"
        /\ Last(requests[r].trace) = "execute"
        /\ requests[r].awaited.raised
        /\ requests[r].response.status_code = 500

\* the constructor raised
C7_WitnessConstructor ==
    \E r \in 1..Len(requests) :
        /\ requests[r].pc = "done"
        /\ Last(requests[r].trace) = "tool_class"
        /\ requests[r].awaited.raised

\* C8: a non-tool message for a registered agent whose record carries no
\* callback address (None or empty) fails in the step of the call with
\* NoCallbackEndpoint (400), and nothing is scheduled.
C8_NoCallbackEndpoint ==
    [][ (/\ Invoked
         /\ ~IsToolInvocation(NewReq)
         /\ Registered(NewReq.agent_id)
         /\ get_agent(NewReq.agent_id).contactEndpoint = NoUrl)
        => /\ NewReq.pc = "done"
           /\ NewReq.response =
                 NoCallbackEndpoint(NewReq.agent_id, NewReq.payload.messageType)
           /\ NewReq.response.kind = "HTTPException"
           /\ NewReq.response.status_code = 400
           /\ NothingStarted(Len(requests'))
      ]_vars

\* a forward message refused for want of a callback address
C8_Witness ==
    \E r \in 1..Len(requests) :
        /\ ~IsToolInvocation(requests[r])
        /\ requests[r].response.status_code = 400
        /\ background_tasks[r] = << >>

\* the address is present and HttpUrl rejects it
InvalidUrl(u) == u # NoUrl /\ ~(u.scheme \in {"http", "https"} /\ u.host # "")

\* C9 as stated: every failure of the forward path for a registered agent,
\* for an invalid callback address as for an absent one, is NoCallbackEndpoint
\* (400).
C9_InvalidReportedAsAbsent ==
    \A r \in 1..Len(requests) :
        (/\ requests[r].pc = "done"
         /\ ~IsToolInvocation(requests[r])
         /\ requests[r].response.kind = "HTTPException"
         /\ requests[r].response # AgentNotFound(requests[r].agent_id))
        => /\ requests[r].response.status_code = 400
           /\ requests[r].response =
                 NoCallbackEndpoint(requests[r].agent_id, requests[r].payload.messageType)

\* C9 (amended): a non-tool message for a registered agent whose callback
\* address is present but not a valid URL fails in the step of the call with
\* the 500 "invalid registered contact endpoint URL" failure, distinct from
\* the 400 NoCallbackEndpoint of an absent address, and nothing is scheduled.
C9_InvalidCallbackEndpoint ==
    [][ (/\ Invoked
         /\ ~IsToolInvocation(NewReq)
         /\ Registered(NewReq.agent_id)
         /\ InvalidUrl(get_agent(NewReq.agent_id).contactEndpoint))
        => /\ NewReq.pc = "done"
           /\ NewReq.response = InvalidCallbackEndpoint(NewReq.agent_id)
           /\ NewReq.response.kind = "HTTPException"
           /\ NewReq.response.status_code = 500
           /\ NewReq.response #
                 NoCallbackEndpoint(NewReq.agent_id, NewReq.payload.messageType)
           /\ NothingStarted(Len(requests'))
      ]_vars

\* a forward message refused for an invalid callback address
C9_Witness ==
    \E r \in 1..Len(requests) :
        /\ ~IsToolInvocation(requests[r])
        /\ requests[r].response = InvalidCallbackEndpoint(requests[r].agent_id)
        /\ background_tasks[r] = << >>

\* invocation r took the forward path and returned (did not raise)
ForwardReturned(r) ==
    /\ requests[r].pc = "done"
    /\ ~IsToolInvocation(requests[r])
    /\ requests[r].response.kind = "ApiResponse"

C11_ToolInvocationSynchronous ==
    [][/\ (Invoked /\ IsToolInvocation(NewReq))
          => /\ background_tasks'[Len(requests')] = << >>
             /\ Range(NewReq.trace) \cap {"HttpUrl", "add_task"} = {}
             /\ NewReq.response \notin
                    {TaskAccepted(NewReq.agent_id),
                     NoCallbackEndpoint(NewReq.agent_id, "tool_invocation"),
                     InvalidCallbackEndpoint(NewReq.agent_id)}
             /\ \A i \in (Len(http_calls) + 1)..Len(http_calls') :
                    /\ http_calls'[i].by = "tool"
                    /\ http_calls'[i].url = get_tool_endpoint(ToolNameOf(NewReq.payload))
       /\ \A r \in 1..Len(requests') :
             IsToolInvocation(requests'[r])
             => /\ background_tasks'[r] = << >>
                /\ dispatches'[r].state = "none"
                /\ requests'[r].pc = "done"
                   => \/ requests'[r].response.kind = "HTTPException"
                      \/ /\ requests'[r].response.kind = "ApiResponse"
                         /\ requests'[r].response.status \in {"success", "error"}
                         /\ "dispatch_status" \notin DOMAIN requests'[r].response.data
      ]_vars

\* a tool ran to success for an agent registered without a callback address
C11_Witness ==
    \E r \in 1..Len(requests) :
        /\ IsToolInvocation(requests[r])
        /\ requests[r].pc = "done"
        /\ requests[r].response.status = "success"
        /\ Registered(requests[r].agent_id)
        /\ get_agent(requests[r].agent_id).contactEndpoint = NoUrl
        /\ background_tasks[r] = << >>

\* the body a receiver reads back from the JSON text: the ISO string is the
\* instant it encodes
model_validate(body) == [body EXCEPT !.timestamp = [epoch |-> @.isoformat]]

\* C12: the message is not altered on its way: the scheduled task holds the
\* payload run_agent received, for the agent it was sent to, and the JSON body
\* of the deferred POST has every field of that message, each with the value
\* received (the timestamp as its ISO string).
C12_MessageUnchanged ==
    /\ \A r \in 1..Len(requests) :
          Len(background_tasks[r]) > 0
          => /\ Len(background_tasks[r]) = 1
             /\ background_tasks[r][1].payload = requests[r].payload
             /\ background_tasks[r][1].agent_id = requests[r].agent_id
    /\ \A i \in 1..Len(http_calls) :
          http_calls[i].by = "dispatch"
          => /\ DOMAIN requests[http_calls[i].r].payload \subseteq DOMAIN http_calls[i].json
             /\ model_validate(http_calls[i].json) = requests[http_calls[i].r].payload

\* a message with a session context and the Ops-Core fields was POSTed
C12_Witness ==
    \E i \in 1..Len(http_calls) :
        /\ http_calls[i].by = "dispatch"
        /\ http_calls[i].json.task_name = "opscore_defined_task"
        /\ http_calls[i].json.sessionContext = SessionContext("s1")
        /\ http_calls[i].json.timestamp = [isoformat |-> 0]

DispatchPosts(r) ==
    {i \in 1..Len(http_calls) : http_calls[i].by = "dispatch" /\ http_calls[i].r = r}

Scheduled(r) == r <= Len(background_tasks) /\ Len(background_tasks[r]) > 0

Ended(r) == r <= Len(dispatches) /\ dispatches[r].state = "done"

\* C14: every scheduled delivery is attempted exactly once: under fair
\* scheduling a scheduled task eventually ends; at all times it has issued at
\* most one POST, and none without a task; once ended it has issued exactly
\* one POST and logged exactly one record, and it never acts again, whatever
\* the POST resulted in.
C14_ExactlyOneAttempt ==
    /\ \A r \in 1..MaxReq : Scheduled(r) ~> Ended(r)
    /\ [](\A r \in 1..Len(requests) :
            /\ Cardinality(DispatchPosts(r)) <= Len(background_tasks[r])
            /\ Len(background_tasks[r]) <= 1
            /\ dispatches[r].state = "done"
               => /\ Cardinality(DispatchPosts(r)) = 1
                  /\ Len(dispatches[r].log) = 1)
    /\ [][\A r \in 1..Len(requests) :
            dispatches[r].state = "done"
            => /\ dispatches'[r] = dispatches[r]
               /\ DispatchPosts(r)' = DispatchPosts(r)]_vars

\* a delivery that failed has ended after its one POST
C14_Witness ==
    \E r \in 1..Len(requests) :
        /\ dispatches[r].state = "done"
        /\ dispatches[r].log[1].level = "error"
        /\ Cardinality(DispatchPosts(r)) = 1

PostReturned(r) ==
    /\ requests[r].pc = "done"
    /\ Last(requests[r].trace) = "post"

\* C15: run_agent is total: whatever the agent, the message and the tool or
\* remote endpoint do, an invocation that ends has returned an ApiResponse or
\* raised an HTTPException (no other exception leaves run_agent); a local
\* tool that raises gives ToolCrashed, and a remote reply that is an
\* exception of no anticipated type or an unparsable 2xx body gives a 500.
C15_Total ==
    \A r \in 1..Len(requests) :
        requests[r].pc = "done"
        => /\ requests[r].response.kind \in {"ApiResponse", "HTTPException"}
           /\ (Last(requests[r].trace) \in {"tool_class", "execute"}
                  /\ requests[r].awaited.raised)
              => requests[r].response =
                    ToolCrashed(ToolNameOf(requests[r].payload), requests[r].awaited.exc)
           /\ (PostReturned(r)
                  /\ \/ requests[r].awaited.kind \in {"Exception", "RemoteProtocolError"}
                     \/ /\ requests[r].awaited.kind = "response"
                        /\ requests[r].awaited.status_code = 200
                        /\ ~requests[r].awaited.json_ok)
              => /\ requests[r].response.kind = "HTTPException"
                 /\ requests[r].response.status_code = 500

\* an ApiResponse run_agent returned, and what its tool or its forward path
\* produced
Outcome(r) == requests[r].pc = "done" /\ requests[r].response.kind = "ApiResponse"

Output(r) ==
    IF ~IsToolInvocation(requests[r])
    THEN [agentId |-> requests[r].agent_id, dispatch_status |-> "scheduled"]
    ELSE IF Last(requests[r].trace) = "execute" THEN requests[r].awaited.value
    ELSE requests[r].awaited.body

CarriesOutput(r) == requests[r].response.data = Output(r)

HasErrorCode(r) == requests[r].response.error_code # NoneStr

\* C16 as claimed: an ApiResponse whose status is not accepted either carries
\* the tool or forward output as data or has error_code set, never both and
\* never neither, and error_code is set only when status is error.
C16_PayloadXorErrorCode ==
    \A r \in 1..Len(requests) :
        (Outcome(r) /\ requests[r].response.status # "accepted")
        => /\ CarriesOutput(r) # HasErrorCode(r)
           /\ HasErrorCode(r) => requests[r].response.status = "error"

\* C16: every ApiResponse of run_agent carries the tool or forward output as
\* data; error_code is set exactly when status is error, and then both are
\* present: the error code (LOCAL_ or EXTERNAL_TOOL_EXECUTION_FAILED) and, as
\* data, the error mapping the tool returned.
C16_OutcomeShape ==
    \A r \in 1..Len(requests) :
        Outcome(r)
        => /\ CarriesOutput(r)
           /\ requests[r].response.status \in {"success", "error"}
           /\ HasErrorCode(r) <=> requests[r].response.status = "error"
           /\ HasErrorCode(r)
              => /\ ErrorMapping(requests[r].response.data)
                 /\ requests[r].response.error_code =
                       IF Last(requests[r].trace) = "post"
                       THEN "EXTERNAL_TOOL_EXECUTION_FAILED"
                       ELSE "LOCAL_TOOL_EXECUTION_FAILED"

\* a remote tool's handled error came back with its error code and its
\* error mapping
C16_Witness ==
    \E r \in 1..Len(requests) :
        /\ Outcome(r)
        /\ PostReturned(r)
        /\ requests[r].response.error_code = "EXTERNAL_TOOL_EXECUTION_FAILED"
        /\ requests[r].response.data =
              [status |-> "error", error_message |-> "Tool failed as expected"]

\* C17: a remote tool call that times out raises HTTPException 504 (gateway
\* timeout) and one that cannot connect raises HTTPException 503 (service
\* unavailable); neither comes back as the generic 500 or as an ApiResponse.
C17_TimeoutAndConnectFailure ==
    \A r \in 1..Len(requests) :
        PostReturned(r)
        => /\ requests[r].awaited.kind = "TimeoutException"
              => /\ requests[r].response.kind = "HTTPException"
                 /\ requests[r].response.status_code = 504
                 /\ "' timed out." \in Range(requests[r].response.message)
           /\ requests[r].awaited.kind = "ConnectError"
              => /\ requests[r].response.kind = "HTTPException"
                 /\ requests[r].response.status_code = 503
                 /\ "Could not connect to external tool '"
                       \in Range(requests[r].response.message)

\* a remote tool call timed out and was answered 504
C17_Witness ==
    \E r \in 1..Len(requests) :
        /\ PostReturned(r)
        /\ requests[r].awaited.kind = "TimeoutException"
        /\ requests[r].response.status_code = 504

NonSuccessReply(r) ==
    /\ PostReturned(r)
    /\ requests[r].awaited.kind = "response"
    /\ requests[r].awaited.status_code \notin 200..299

\* C18: a remote tool's answer with a status code outside 2xx raises an
\* HTTPException with that very status code, whatever its body holds: the
\* body is not taken for a tool result (no ApiResponse, no data), it only
\* appears in the detail text.
C18_StatusForwarded ==
    \A r \in 1..Len(requests) :
        NonSuccessReply(r)
        => /\ requests[r].response.kind = "HTTPException"
           /\ requests[r].response.status_code = requests[r].awaited.status_code
           /\ requests[r].response.data = PyNone
           /\ requests[r].response.error_code = NoneStr
           /\ ToString(requests[r].awaited.status_code)
                 \in Range(requests[r].response.message)

\* a remote 500 whose body is an error mapping was forwarded as a 500
C18_Witness ==
    \E r \in 1..Len(requests) :
        /\ NonSuccessReply(r)
        /\ ErrorMapping(requests[r].awaited.body)
        /\ requests[r].response.kind = "HTTPException"
        /\ requests[r].response.status_code = 500

JsonReply(r) ==
    /\ PostReturned(r)
    /\ requests[r].awaited.kind = "response"
    /\ requests[r].awaited.status_code \in 200..299
    /\ requests[r].awaited.json_ok

C20_ToolOutcomeSent200 ==
    \A r \in 1..Len(requests) :
        Outcome(r)
        => requests[r].response.status_code = IF IsToolInvocation(requests[r])
                                              THEN 200 ELSE 202

\* position of the first occurrence of step in trace, 0 when it has none
IndexOf(step, trace) ==
    IF step \in Range(trace)
    THEN CHOOSE i \in 1..Len(trace) :
            trace[i] = step /\ \A j \in 1..(i - 1) : trace[j] # step
    ELSE 0

\* step a occurs in trace only after step b has occurred
OnlyAfter(a, b, trace) ==
    a \in Range(trace) => (b \in Range(trace) /\ IndexOf(b, trace) < IndexOf(a, trace))

\* C24: within one invocation the steps come in the order directory lookup,
\* tool name, catalogue lookup, execution: the directory lookup is the first
\* call; the table of local classes is consulted only after the table of
\* endpoints, which is consulted only after the agent was found; a class is
\* constructed and executed only after it was looked up, a client opened and a
\* POST issued only after the endpoint was looked up; and a failure at one
\* step (agent unknown, tool name missing, tool unknown) ends the invocation
\* there, with no later step and no outbound call.
C24_StepOrder ==
    [][Invoked
       => LET t == NewReq.trace
              tool_name == ToolNameOf(NewReq.payload)
          IN
          /\ t[1] = "get_agent"
          /\ OnlyAfter("get_tool_endpoint", "get_agent", t)
          /\ OnlyAfter("get_tool_class", "get_tool_endpoint", t)
          /\ OnlyAfter("tool_class", "get_tool_class", t)
          /\ OnlyAfter("execute", "tool_class", t)
          /\ OnlyAfter("AsyncClient", "get_tool_endpoint", t)
          /\ OnlyAfter("post", "AsyncClient", t)
          /\ http_calls' # http_calls => Last(t) = "post"
          /\ ~Registered(NewReq.agent_id)
             => t = <<"get_agent">> /\ NothingStarted(Len(requests'))
          /\ (IsToolInvocation(NewReq) /\ tool_name \in {NoneStr, ""})
             => t = <<"get_agent">> /\ NothingStarted(Len(requests'))
          /\ (/\ IsToolInvocation(NewReq)
              /\ Registered(NewReq.agent_id)
              /\ tool_name \notin {NoneStr, ""}
              /\ ~Bound(tool_name))
             => /\ t = <<"get_agent", "get_tool_endpoint", "get_tool_class">>
                /\ NothingStarted(Len(requests'))
      ]_vars

\* a local tool was executed after the agent, the endpoint table and the
\* class table had been consulted in this order
C24_Witness ==
    \E r \in 1..Len(requests) :
        /\ requests[r].pc = "done"
        /\ requests[r].trace =
              <<"get_agent", "get_tool_endpoint", "get_tool_class", "tool_class", "execute">>
        /\ requests[r].response.status = "success"

\* the failure kind the remote-tool branch assigns to a reply: the text its
\* except clause starts the detail with
ToolFailureKind(reply) == ExternalToolReply("tool", ToolUrl, reply).message[1]

\* the failure kind the deferred delivery records for a reply
DispatchFailureKind(reply) == DispatchLog(reply).what

\* C25: the deferred delivery classifies the failures of its POST as the
\* remote-tool call does: whenever a delivery has ended in a failure, every
\* transport behaviour that the delivery records under the same kind as this
\* failure is given the same kind as this failure by the remote-tool branch,
\* and conversely; and every client, of either caller, is opened with the
\* same timeout.
C25_SameClassification ==
    /\ \A c \in clients : c.timeout = EXTERNAL_CALL_TIMEOUT
    /\ \A r \in 1..Len(dispatches) :
          (dispatches[r].state = "done" /\ PostRaises(dispatches[r].awaited) # ""
                                        /\ Len(dispatches[r].log) = 1)
          => \A other \in {f \in DeliveryReplies : PostRaises(f) # ""} :
                (DispatchFailureKind(other) = dispatches[r].log[1].what)
                <=> (ToolFailureKind(other) = ToolFailureKind(dispatches[r].awaited))

\* the POSTs the deferred task of invocation r has issued, as positions in
\* http_calls
DeliveriesOf(r) ==
    {i \in 1..Len(http_calls) : http_calls[i].by = "dispatch" /\ http_calls[i].r = r}

\* C26: concurrent invocations do not interfere: under every interleaving of
\* the forward messages handled for one registered agent, each message is
\* acknowledged and scheduled as its own task holding its own payload, each
\* task POSTs at most once (exactly once as soon as it has started) and what
\* it POSTs is the dump of its own, unmodified payload sent to the address
\* captured for it, and a step of one invocation or of one delivery changes
\* nothing of any other invocation or delivery.
C26_NoInterference ==
    /\ [](\A r \in 1..Len(requests) :
            requests[r].response = TaskAccepted(requests[r].agent_id)
            => /\ Len(background_tasks[r]) = 1
               /\ background_tasks[r][1].payload = requests[r].payload
               /\ Cardinality(DeliveriesOf(r)) =
                     (IF dispatches[r].state = "none" THEN 0 ELSE 1)
               /\ \A i \in DeliveriesOf(r) :
                     /\ http_calls[i].json = model_dump(requests[r].payload)
                     /\ http_calls[i].url = background_tasks[r][1].contact_endpoint)
    /\ [][/\ (Invoked /\ Registered(NewReq.agent_id))
             => /\ NewReq.response = TaskAccepted(NewReq.agent_id)
                /\ background_tasks'[Len(requests')] =
                      <<Task(NewReq.agent_id, get_agent(NewReq.agent_id).contactEndpoint,
                             NewReq.payload)>>
          /\ \A r \in 1..Len(requests) :
               /\ requests'[r] = requests[r]
               /\ background_tasks'[r] = background_tasks[r]
               /\ dispatches'[r] # dispatches[r]
                  => \A q \in (1..Len(requests)) \ {r} : dispatches'[q] = dispatches[q]
          /\ \A i \in 1..Len(http_calls) : http_calls'[i] = http_calls[i]
         ]_vars

\* two forward messages with different payloads were both acknowledged, and
\* the one handled last reached the callback address first while the
\* delivery of the other was still in flight
C26_Witness ==
    /\ Len(requests) = 2
    /\ requests[1].payload # requests[2].payload
    /\ \A r \in 1..2 : requests[r].response = TaskAccepted("a1")
    /\ Len(http_calls) = 2
    /\ http_calls[1].r = 2 /\ http_calls[2].r = 1
    /\ dispatches[1].state = "posting" /\ dispatches[2].state = "posting"

\* C27: every outbound HTTP call opens a client for itself and closes it on
\* every way out: the open clients are exactly those of the remote-tool
\* calls and deliveries whose POST is still awaited, so once a call has ended
\* (by a success, a handled tool error, a timeout, a connection failure, a
\* non-2xx status or any other exception) no client it opened remains.
C27_ClientsReleased ==
    /\ clients =
          {Client("tool", r) : r \in {q \in 1..Len(requests) : requests[q].pc = "await_post"}}
          \cup {Client("dispatch", r) :
                  r \in {q \in 1..Len(dispatches) : dispatches[q].state = "posting"}}
    /\ \A r \in 1..Len(requests) :
          /\ requests[r].pc = "done" => Client("tool", r) \notin clients
          /\ dispatches[r].state = "done" => Client("dispatch", r) \notin clients

\* a remote-tool call that ended by a timeout left no client open
C27_Witness ==
    \E r \in 1..Len(requests) :
        /\ requests[r].pc = "done"
        /\ "post" \in Range(requests[r].trace)
        /\ requests[r].awaited = HttpReply("TimeoutException", 0, FALSE, PyNone)
        /\ clients = {}

\* C28: a tool invocation uses exactly one strategy: when the tool's name has
\* an external endpoint the handler consults the endpoint table, POSTs to
\* that endpoint and never consults the class table nor runs a local handler;
\* when it has none no POST is issued and no client opened; and no
\* invocation ever both POSTs to a tool and looks up, constructs or executes a
\* local class.
C28_OneStrategy ==
    /\ [](\A r \in 1..Len(requests) :
            ~ /\ "post" \in Range(requests[r].trace)
              /\ Range(requests[r].trace) \cap {"get_tool_class", "tool_class", "execute"}
                    # {})
    /\ [][(/\ Invoked
           /\ IsToolInvocation(NewReq)
           /\ Registered(NewReq.agent_id)
           /\ ToolNameOf(NewReq.payload) \notin {NoneStr, ""})
          => LET tool_name == ToolNameOf(NewReq.payload) IN
             IF tool_name \in DOMAIN _external_tool_endpoints
             THEN /\ NewReq.trace = <<"get_agent", "get_tool_endpoint", "AsyncClient", "post">>
                  /\ NewReq.pc = "await_post"
                  /\ http_calls' =
                        Append(http_calls,
                               HttpCall("tool", Len(requests'),
                                        _external_tool_endpoints[tool_name],
                                        [arguments |-> ArgumentsOf(NewReq.payload)]))
                  /\ clients' = clients \cup {Client("tool", Len(requests'))}
             ELSE /\ NewReq.trace[2] = "get_tool_endpoint"
                  /\ Range(NewReq.trace) \cap {"AsyncClient", "post"} = {}
                  /\ http_calls' = http_calls
                  /\ clients' = clients
         ]_vars

\* a remote tool answered with a result and the class table was never
\* consulted
C28_Witness ==
    \E r \in 1..Len(requests) :
        /\ requests[r].pc = "done"
        /\ requests[r].trace = <<"get_agent", "get_tool_endpoint", "AsyncClient", "post">>
        /\ requests[r].response.status = "success"

\* the invocations that returned the acknowledgement of the forward path
Acknowledged ==
    {r \in 1..Len(requests) :
        requests[r].pc = "done" /\ requests[r].response = TaskAccepted(requests[r].agent_id)}

\* the deferred deliveries scheduled so far, as (invocation, position) pairs
ScheduledTasks ==
    {p \in (1..Len(background_tasks)) \X (1..2) : p[2] <= Len(background_tasks[p[1]])}

C30_CapturedAddress ==
    [][/\ (Invoked /\ background_tasks'[Len(requests')] # << >>)
          => background_tasks'[Len(requests')] =
               <<Task(NewReq.agent_id, _agent_registry[NewReq.agent_id].contactEndpoint,
                      NewReq.payload)>>
       /\ \A r \in 1..Len(requests) :
             /\ background_tasks'[r] = background_tasks[r]
             /\ (dispatches[r].state = "none" /\ dispatches'[r].state = "posting")
                => /\ http_calls' =
                        Append(http_calls,
                               HttpCall("dispatch", r, background_tasks[r][1].contact_endpoint,
                                        model_dump(background_tasks[r][1].payload)))
                   /\ _agent_registry' = _agent_registry
      ]_vars

\* a delivery is in flight to the address captured when the message was
\* handled while the directory no longer holds that address for the agent
C30_Witness ==
    \E r \in 1..Len(requests) :
        /\ dispatches[r].state = "posting"
        /\ get_agent(requests[r].agent_id).contactEndpoint # background_tasks[r][1].contact_endpoint
        /\ \E i \in 1..Len(http_calls) :
              /\ http_calls[i].by = "dispatch" /\ http_calls[i].r = r
              /\ http_calls[i].url = background_tasks[r][1].contact_endpoint
              /\ http_calls[i].url = ReceiverUrl

-----------------------------------------------------------------------------
(* Properties of the catalogue and the directory, under SpecRegistration *)

\* C21: tool names are unique: after every call of register_tool,
\* register_external_tool or clear_all, failed ones included, no name is
\* bound both as a local class and as an external endpoint and the names with
\* a definition are exactly the bound ones; a registration (local or
\* external) under a name bound in either table raises ValueError and changes
\* nothing.
C21_NameUniqueness ==
    [][/\ DOMAIN _tool_registry' \cap DOMAIN _external_tool_endpoints' = {}
       /\ DOMAIN _tool_definitions' =
             DOMAIN _tool_registry' \cup DOMAIN _external_tool_endpoints'
       /\ (/\ last_call'.op = "register_tool"
           /\ last_call'.arg.kind = "tool"
           /\ Bound(last_call'.arg.definition.name))
          => last_call'.exc = "ValueError" /\ UNCHANGED registryVars
       /\ (/\ last_call'.op = "register_external_tool"
           /\ Bound(last_call'.arg.name))
          => last_call'.exc = "ValueError" /\ UNCHANGED registryVars
      ]_vars

\* an external registration with a valid URL was rejected because a local
\* class has the name
C21_Witness ==
    /\ last_call.op = "register_external_tool"
    /\ last_call.exc = "ValueError"
    /\ last_call.arg.endpoint_url = ToolUrl
    /\ last_call.arg.name \in DOMAIN _tool_registry
    /\ last_call.arg.name \notin DOMAIN _external_tool_endpoints

StoredWithName(agentName) ==
    {id \in DOMAIN _agent_registry : _agent_registry[id].agentName = agentName}

\* C23: add_agent with an agentId or an agentName of a stored agent raises
\* ValueError, which the register API answers with 409 Conflict, and the
\* directory stays as it was (the first record under a name is retained);
\* after every call no two stored agents share a name and every record is
\* stored under its own agentId.
C23_DuplicateAgentRejected ==
    [][/\ (/\ last_call'.op \in {"add_agent", "register_agent"}
           /\ \/ last_call'.arg.agentId \in DOMAIN _agent_registry
              \/ StoredWithName(last_call'.arg.agentName) # {})
          => /\ _agent_registry' = _agent_registry
             /\ last_call'.op = "add_agent" => last_call'.exc = "ValueError"
             /\ last_call'.op = "register_agent"
                => /\ last_call'.exc = "HTTPException"
                   /\ last_call'.status_code = 409
             /\ "' already registered." \in Range(last_call'.message)
                \/ " already registered." \in Range(last_call'.message)
       /\ \A id \in DOMAIN _agent_registry' :
             /\ _agent_registry'[id].agentId = id
             /\ {j \in DOMAIN _agent_registry' :
                    _agent_registry'[j].agentName = _agent_registry'[id].agentName} = {id}
      ]_vars

\* the register API answered 409 for a name already stored, and the record
\* stored first, with its own address, is the one kept
C23_Witness ==
    /\ last_call.op = "register_agent"
    /\ last_call.status_code = 409
    /\ \E id \in StoredWithName(last_call.arg.agentName) :
          /\ id # last_call.arg.agentId
          /\ _agent_registry[id].contactEndpoint # last_call.arg.contactEndpoint
====
